---- MODULE Spec2Model ----
(***************************************************************************)
(* Model of porepy.composite: Composition (composition.py) and Phase       *)
(* (phase.py).  Components and phases are identified by their names.       *)
(* Variable and equation names are tuples of strings: <<"y", e>> is the    *)
(* molar fraction of phase e, <<"xi", c, e>> the extended fraction of      *)
(* component c in phase e, <<"chi", c, e>> the normalized one, <<"z", c>>  *)
(* the feed fraction of c, <<"s", e>> the saturation of e.                 *)
(* Fractional values are integers in units of 1/One.                       *)
(***************************************************************************)
EXTENDS Integers, Sequences, FiniteSets, TLC

VARIABLES
    components,      \* Composition._components, list of component names
    phases,          \* Composition._phases, list of phase names
    present,         \* Phase._present_components, per phase name
    iterate,         \* ITERATE value of every created AD variable
    state,           \* STATE value of every created AD variable
    pT_subsystem,    \* Composition.pT_subsystem
    ph_subsystem,    \* Composition.ph_subsystem
    flash_history,   \* Composition.flash_history
    max_iter_flash,  \* Composition.max_iter_flash
    pc,              \* position inside a flash call: "idle", "loop", "entry"
    fl,              \* locals of the running _Newton_min call
    last,            \* the last finished operation, its arguments and outcome
    numCalls,        \* number of flash calls started
    calls,           \* every history entry ever made, oldest first
    eos              \* the PengRobinsonEoS object: gaslike, eps, components, BIPs

vars == <<components, phases, present, iterate, state, pT_subsystem,
          ph_subsystem, flash_history, max_iter_flash, pc, fl, last, numCalls,
          calls, eos>>

----------------------------------------------------------------------------
(* Bounds of the model *)

MaxIter == 2        \* largest max_iter_flash a flash call is started with
MaxCalls == 2       \* flash calls per behaviour
MaxListLen == 2     \* longest list passed to add_component
MaxHistCalls == 103 \* calls made in the history specification
MaxCells == 3       \* cells in the arrays passed to _Z

(* Inputs *)

ComponentNames == {"H2O", "CO2"}
\* a component that was instantiated with a different AD system
ForeignComponents == {"NaCl"}
\* the phase lists a child class constructor may create
PhaseLists == {<< >>, <<"L">>, <<"L", "G">>}

(* Program constants *)

DefaultMaxIterFlash == 1000
max_history == 100
\* flash_tolerance (1e-8); residuals are counted in units of the tolerance
flash_tolerance == 1
\* the value 1.0 of a fraction
One == 6
\* value of every primary variable at which the flash equations are solved
Equilibrium == One \div 3
\* iter_final before its first assignment
Unbound == -1

----------------------------------------------------------------------------
(* Helpers on sequences *)

Range(s) == {s[i] : i \in 1..Len(s)}

RECURSIVE Flatten(_)
Flatten(ss) == IF ss = << >> THEN << >> ELSE Head(ss) \o Flatten(Tail(ss))

Lists(S, n) == UNION {[1..k -> S] : k \in 0..n}

RECURSIVE SumSq(_, _)
SumSq(f, S) ==
    IF S = {} THEN 0
    ELSE LET v == CHOOSE x \in S : TRUE
         IN f[v] * f[v] + SumSq(f, S \ {v})

RECURSIVE SumOver(_, _)
SumOver(f, S) ==
    IF S = {} THEN 0
    ELSE LET v == CHOOSE x \in S : TRUE IN f[v] + SumOver(f, S \ {v})

\* f extended or overwritten by value val on the names in S
Put(f, S, val) == [v \in DOMAIN f \cup S |-> IF v \in S THEN val ELSE f[v]]

----------------------------------------------------------------------------
(* Quotients of floating point values.  A value that the code computes by  *)
(* a division is kept as a pair <<n, d>> in lowest terms with d >= 0;      *)
(* <<1, 0>> and <<-1, 0>> are +inf and -inf, <<0, 0>> is nan.              *)

Sign(x) == IF x > 0 THEN 1 ELSE IF x < 0 THEN -1 ELSE 0

RECURSIVE GCD(_, _)
GCD(a, b) == IF b = 0 THEN a ELSE GCD(b, a % b)

Mag(x) == IF x < 0 THEN -x ELSE x

Rat(n, d) ==
    IF d = 0 THEN <<Sign(n), 0>>
    ELSE LET g == GCD(Mag(n), Mag(d))
         IN <<Sign(d) * (n \div g), Mag(d) \div g>>

RZero == <<0, 1>>
ROne == <<1, 1>>
NaN == <<0, 0>>

\* a stored value in units of 1/One as a quotient
FromUnits(v) == Rat(v, One)

IsNaN(a) == a = NaN
RDiv(a, b) == Rat(a[1] * b[2], a[2] * b[1])
RMul(a, b) == Rat(a[1] * b[1], a[2] * b[2])
RAdd(a, b) ==
    IF a[2] = 0 /\ b[2] = 0 THEN (IF a = b THEN a ELSE NaN)
    ELSE Rat(a[1] * b[2] + b[1] * a[2], a[2] * b[2])
RSub(a, b) == RAdd(a, <<-b[1], b[2]>>)
\* comparisons are false on nan
RLess(a, b) == ~IsNaN(a) /\ ~IsNaN(b) /\ a # b /\ RSub(a, b)[1] < 0

\* x[x < 0.0] = 0.0; x[x > 1.0] = 1.0 on a quotient
RClamp(a) == IF RLess(a, RZero) THEN RZero ELSE IF RLess(ROne, a) THEN ROne ELSE a

\* the same on a value in units of 1/One
Clamp(v) == IF v < 0 THEN 0 ELSE IF v > One THEN One ELSE v

----------------------------------------------------------------------------
(* AD system primitives *)

\* ADSystem.set_var_values(name, values, copy_to_state=False)
set_var_values(st, name, val, copy_to_state) ==
    [st EXCEPT !.iterate = Put(st.iterate, {name}, val),
               !.state = IF copy_to_state THEN Put(st.state, {name}, val)
                         ELSE st.state]

----------------------------------------------------------------------------
(* Phase.add_component for a single component *)

Phase_add_component(st, e, comp) ==
    IF comp \in Range(st.present[e]) THEN st
    ELSE LET s1 == set_var_values(st, <<"xi", comp, e>>, 0, TRUE)
             s2 == set_var_values(s1, <<"chi", comp, e>>, RZero, TRUE)
         IN [s2 EXCEPT !.present[e] = Append(@, comp)]

RECURSIVE AddToPhases(_, _, _)
AddToPhases(st, ps, comp) ==
    IF ps = << >> THEN st
    ELSE AddToPhases(Phase_add_component(st, Head(ps), comp), Tail(ps), comp)

(* Composition.add_component: the loop over the passed list; `added` is    *)
(* the list of names computed once before the loop.                        *)
RECURSIVE AddLoop(_, _, _)
AddLoop(st, list, added) ==
    IF list = << >> THEN st
    ELSE LET comp == Head(list) IN
         IF comp \in added THEN AddLoop(st, Tail(list), added)
         ELSE IF comp \in ForeignComponents
              THEN [st EXCEPT !.raised = "ValueError"]
              ELSE LET s1 == [st EXCEPT !.components = Append(@, comp)]
                       s2 == AddToPhases(s1, phases, comp)
                   IN AddLoop(s2, Tail(list), added)

Store == [components |-> components, present |-> present,
          iterate |-> iterate, state |-> state, raised |-> "no"]

\* locals of _Newton_min when no call has run since the last other operation
Idle == [flash |-> "none", copy_to_state |-> FALSE, initial_guess |-> "none",
         var_names |-> << >>, equations |-> << >>, i |-> 0,
         iter_final |-> Unbound, success |-> FALSE,
         \* bookkeeping of the call, read by the properties only:
         \* squared norm of every assembled residual, STATE and history
         \* length at the start, number of linear solves
         norms |-> << >>, state0 |-> << >>, calls0 |-> 0, solves |-> 0]

\* a component exists with its feed fraction variable, created by its constructor
WithFeeds(f, list) ==
    [v \in DOMAIN f \cup {<<"z", list[i]>> : i \in 1..Len(list)} |->
        IF v \in DOMAIN f THEN f[v] ELSE 0]

add_component(list) ==
    /\ pc = "idle"
    /\ LET st == AddLoop(Store, list, Range(components)) IN
        /\ components' = st.components
        /\ present' = st.present
        /\ iterate' = WithFeeds(st.iterate, st.components)
        /\ state' = WithFeeds(st.state, st.components)
        /\ last' = [op |-> "add_component",
                    result |-> IF st.raised = "no" THEN "ok" ELSE st.raised]
    /\ fl' = Idle
    /\ UNCHANGED <<eos, phases, pT_subsystem, ph_subsystem, flash_history,
                   max_iter_flash, pc, numCalls, calls>>

(* Phase.add_component: the loop over the passed list; the names in       *)
(* `present_components` are computed once before the loop.                 *)
RECURSIVE PhaseAddLoop(_, _, _, _)
PhaseAddLoop(st, e, list, present_components) ==
    IF list = << >> THEN st
    ELSE LET comp == Head(list) IN
         IF comp \in ForeignComponents
         THEN [st EXCEPT !.raised = "RuntimeError"]
         ELSE IF comp \in present_components
              THEN PhaseAddLoop(st, e, Tail(list), present_components)
              ELSE LET s1 == set_var_values(st, <<"xi", comp, e>>, 0, TRUE)
                       s2 == set_var_values(s1, <<"chi", comp, e>>, RZero,
                                            TRUE)
                       s3 == [s2 EXCEPT !.present[e] = Append(@, comp)]
                   IN PhaseAddLoop(s3, e, Tail(list), present_components)

\* Phase.add_component called on phase e with a list of components
phase_add_component(e, list) ==
    /\ pc = "idle"
    /\ LET st == PhaseAddLoop(Store, e, list, Range(present[e])) IN
        /\ present' = st.present
        /\ iterate' = st.iterate
        /\ state' = st.state
        /\ last' = [op |-> "Phase.add_component", phase |-> e, list |-> list,
                    result |-> IF st.raised = "no" THEN "ok" ELSE st.raised]
    /\ fl' = Idle
    /\ UNCHANGED <<eos, components, phases, pT_subsystem, ph_subsystem,
                   flash_history, max_iter_flash, pc, numCalls, calls>>

----------------------------------------------------------------------------
(* Composition.initialize *)

EmptySubsystem ==
    [equations |-> << >>, primary_vars |-> << >>, secondary_vars |-> << >>]

reference_phase == phases[1]
reference_component == components[1]

SeqOf(s, Op(_)) == [i \in 1..Len(s) |-> Op(s[i])]

FeedName(c) == <<"z", c>>
SaturationName(e) == <<"s", e>>
FractionName(e) == <<"y", e>>

\* _set_subsystem_vars: secondary variables; T is secondary for p-T only
SecondaryVars(isPT) ==
    <<<<"p">>, <<"h">>>> \o (IF isPT THEN <<<<"T">>>> ELSE << >>)
    \o SeqOf(components, FeedName)
    \o SeqOf(phases, SaturationName)
    \o (IF phases # << >> THEN <<FractionName(reference_phase)>> ELSE << >>)

\* the phase loop without the test for the reference phase
PhasePrimary_with_reference_fraction(e) ==
    <<FractionName(e)>>
    \o [i \in 1..Len(present[e]) |-> <<"xi", present[e][i], e>>]

PhasePrimary(e) ==
    (IF e # reference_phase THEN <<FractionName(e)>> ELSE << >>)
    \o [i \in 1..Len(present[e]) |-> <<"xi", present[e][i], e>>]

\* _set_subsystem_vars: primary variables; T is primary for p-h only
PrimaryVars(isPT) ==
    Flatten(SeqOf(phases, PhasePrimary))
    \o (IF isPT THEN << >> ELSE <<<<"T">>>>)

MassName(c) == IF c # reference_component THEN <<<<"flash_mass", c>>>> ELSE << >>

\* mass conservation of every component that is not the reference component
MassEquations == Flatten(SeqOf(components, MassName))

\* single component: its own mass balance; else the KKT condition of the
\* reference phase, named with str(phase) instead of phase.name
SingleOrReference ==
    IF Len(components) = 1 THEN <<<<"flash_mass", reference_component>>>>
    ELSE <<<<"flash_KKT", "str", reference_phase>>>>

KKTName(e) == IF e = reference_phase THEN << >> ELSE <<<<"flash_KKT", e>>>>

ComplementaryEquations == Flatten(SeqOf(phases, KKTName))

Equations(isPT) ==
    MassEquations \o SingleOrReference \o ComplementaryEquations
    \o (IF isPT THEN << >> ELSE <<<<"flash_h_constraint">>>>)

Subsystem(isPT) ==
    [equations |-> Equations(isPT), primary_vars |-> PrimaryVars(isPT),
     secondary_vars |-> SecondaryVars(isPT)]

\* initialize without `assert self.num_components >= 1`
initialize_without_component_assert ==
    /\ pc = "idle"
    /\ IF phases # << >>
       THEN /\ pT_subsystem' = Subsystem(TRUE)
            /\ ph_subsystem' = Subsystem(FALSE)
            /\ last' = [op |-> "initialize", result |-> "ok"]
       ELSE /\ UNCHANGED <<pT_subsystem, ph_subsystem>>
            /\ last' = [op |-> "initialize", result |-> "AssertionError"]
    /\ fl' = Idle
    /\ UNCHANGED <<eos, components, phases, present, iterate, state, flash_history,
                   max_iter_flash, pc, numCalls, calls>>

\* initialize: the two assertions, then both subsystems are stored
initialize ==
    /\ pc = "idle"
    /\ IF Len(components) >= 1 /\ phases # << >>
       THEN /\ pT_subsystem' = Subsystem(TRUE)
            /\ ph_subsystem' = Subsystem(FALSE)
            /\ last' = [op |-> "initialize", result |-> "ok"]
       ELSE /\ UNCHANGED <<pT_subsystem, ph_subsystem>>
            /\ last' = [op |-> "initialize",
                        result |-> "AssertionError"]
    /\ fl' = Idle
    /\ UNCHANGED <<eos, components, phases, present, iterate, state, flash_history,
                   max_iter_flash, pc, numCalls, calls>>

\* the subsystems have been built by initialize
Initialized == pT_subsystem # EmptySubsystem

----------------------------------------------------------------------------
(* Flash: _set_initial_guess, _Newton_min, _history_entry *)

\* user assignment to the public attribute max_iter_flash, made once
SetMaxIterFlash(n) ==
    /\ pc = "idle"
    /\ max_iter_flash = DefaultMaxIterFlash
    /\ max_iter_flash' = n
    /\ last' = [op |-> "set_max_iter_flash", result |-> "ok"]
    /\ fl' = Idle
    /\ UNCHANGED <<eos, components, phases, present, iterate, state, pT_subsystem,
                   ph_subsystem, flash_history, pc, numCalls, calls>>

RECURSIVE GuessComponents(_, _, _, _)
GuessComponents(st, e, comps, val) ==
    IF comps = << >> THEN st
    ELSE GuessComponents(set_var_values(st, <<"xi", Head(comps), e>>, val, FALSE),
                         e, Tail(comps), val)

RECURSIVE GuessPhases(_, _)
GuessPhases(st, ps) ==
    IF ps = << >> THEN st
    ELSE LET e == Head(ps)
             s1 == set_var_values(st, FractionName(e), One \div Len(phases), FALSE)
             s2 == GuessComponents(s1, e, components, One \div Len(present[e]))
         IN GuessPhases(s2, Tail(ps))

\* the uniform values written whatever the strategy
set_initial_guess_always_uniform(initial_guess) ==
    GuessPhases(Store, phases).iterate

\* _set_initial_guess: the ITERATE after the chosen strategy
set_initial_guess(initial_guess) ==
    IF initial_guess = "iterate" THEN iterate
    ELSE IF initial_guess = "uniform" THEN GuessPhases(Store, phases).iterate
    ELSE iterate

\* ADSystem.assemble_subsystem: the right-hand side b at the iterate `it`
assemble_subsystem(it, var_names) ==
    [v \in Range(var_names) |-> Equilibrium - it[v]]

\* np.linalg.norm(b) squared
Norm2(b) == SumSq(b, DOMAIN b)

\* the test with < in place of <=
Converged_strict(b) == Norm2(b) < flash_tolerance * flash_tolerance

\* np.linalg.norm(b) <= self.flash_tolerance
Converged(b) == Norm2(b) <= flash_tolerance * flash_tolerance

\* sps.linalg.spsolve(A, b): the full Newton step, or a step that falls short
spsolve(b, step) ==
    IF step = "full" THEN b ELSE [v \in DOMAIN b |-> Sign(b[v])]

StepKinds == {"full", "short"}

\* DofManager.distribute_variable(DX, variables, additive=True, to_iterate=True)
distribute_additive(it, dx) ==
    [v \in DOMAIN it |-> IF v \in DOMAIN dx THEN it[v] + dx[v] ELSE it[v]]

\* every value of the ITERATE copied to STATE
copy_iterate_to_state_all(st, it, var_names) ==
    [v \in DOMAIN st |-> it[v]]

\* assemble_variable(from_iterate=True) followed by distribute_variable to STATE
copy_iterate_to_state(st, it, var_names) ==
    [v \in DOMAIN st |-> IF v \in Range(var_names) THEN it[v] ELSE st[v]]

FlashKinds == {"isothermal", "isenthalpic"}

\* isothermal_flash / isenthalpic_flash up to the first residual check
FlashStart(kind, copy_to_state, initial_guess) ==
    /\ pc = "idle"
    /\ max_iter_flash <= MaxIter
    /\ numCalls' = numCalls + 1
    /\ LET subsystem == IF kind = "isothermal" THEN pT_subsystem ELSE ph_subsystem
       IN IF subsystem = EmptySubsystem
          THEN \* subsystem["primary_vars"] of an empty dict
               /\ last' = [op |-> kind, result |-> "KeyError"]
               /\ fl' = Idle
               /\ UNCHANGED <<iterate, pc>>
          ELSE LET it == set_initial_guess(initial_guess)
                   b == assemble_subsystem(it, subsystem.primary_vars)
                   start == [Idle EXCEPT !.flash = kind,
                                         !.copy_to_state = copy_to_state,
                                         !.initial_guess = initial_guess,
                                         !.var_names = subsystem.primary_vars,
                                         !.equations = subsystem.equations,
                                         !.norms = <<Norm2(b)>>,
                                         !.state0 = state,
                                         !.calls0 = Len(calls)]
               IN /\ iterate' = it
                  /\ fl' = IF Converged(b)
                           THEN [start EXCEPT !.success = TRUE, !.iter_final = 0]
                           ELSE start
                  /\ pc' = IF Converged(b) \/ max_iter_flash = 0
                           THEN "entry" ELSE "loop"
                  /\ UNCHANGED last
    /\ UNCHANGED <<eos, components, phases, present, state, pT_subsystem,
                   ph_subsystem, flash_history, max_iter_flash, calls>>

\* one pass of the loop `for i in range(self.max_iter_flash)`
NewtonIter(step) ==
    /\ pc = "loop"
    /\ fl.i < max_iter_flash
    /\ LET b0 == assemble_subsystem(iterate, fl.var_names)
           dx == spsolve(b0, step)
           it == distribute_additive(iterate, dx)
           b == assemble_subsystem(it, fl.var_names)
           done == [fl EXCEPT !.iter_final = fl.i + 1, !.i = fl.i + 1,
                              !.solves = fl.solves + 1,
                              !.norms = Append(fl.norms, Norm2(b))]
       IN /\ iterate' = it
          /\ IF Converged(b)
             THEN /\ state' = IF fl.copy_to_state
                              THEN copy_iterate_to_state(state, it, fl.var_names)
                              ELSE state
                  /\ fl' = [done EXCEPT !.success = TRUE]
                  /\ pc' = "entry"
             ELSE /\ state' = state
                  /\ fl' = done
                  /\ pc' = IF fl.i + 1 < max_iter_flash THEN "loop" ELSE "entry"
    /\ UNCHANGED <<eos, components, phases, present, pT_subsystem, ph_subsystem,
                   flash_history, max_iter_flash, last, numCalls, calls>>

\* str(x) of a list
Str(x) == [str |-> x]

\* T_name in var_names
FlashName(var_names) ==
    IF <<"T">> \in Range(var_names) THEN "isenthalpic" ELSE "isothermal"

Entry(flash, iterations, success, variables, equations) ==
    [flash |-> flash, method |-> "Newton-min", iterations |-> iterations,
     success |-> success, variables |-> Str(variables),
     equations |-> Str(equations), other |-> Str(<< >>)]

\* _history_entry with pop() in place of pop(0): the newest entry is dropped
history_entry_drops_newest(history, entry) ==
    LET h == Append(history, entry)
    IN IF Len(h) > max_history THEN SubSeq(h, 1, Len(h) - 1) ELSE h

\* _history_entry: append, then drop the oldest entry above the capacity
history_entry(history, entry) ==
    LET h == Append(history, entry)
    IN IF Len(h) > max_history THEN Tail(h) ELSE h

\* the end of _Newton_min: the history entry and the return
FlashEnd ==
    /\ pc = "entry"
    /\ pc' = "idle"
    /\ IF fl.iter_final = Unbound
       THEN \* iter_final is read before any assignment
            /\ last' = [op |-> fl.flash,
                        result |-> "UnboundLocalError"]
            /\ UNCHANGED <<flash_history, calls>>
       ELSE LET entry == Entry(FlashName(fl.var_names), fl.iter_final,
                               fl.success, fl.var_names, fl.equations)
            IN /\ flash_history' = history_entry(flash_history, entry)
               /\ calls' = Append(calls, entry)
               /\ last' = [op |-> fl.flash,
                           result |-> IF fl.success THEN "True" ELSE "False"]
    /\ UNCHANGED <<eos, components, phases, present, iterate, state, pT_subsystem,
                   ph_subsystem, max_iter_flash, fl, numCalls>>


----------------------------------------------------------------------------
(* Composition.post_process_fractions *)

\* ADSystem.get_var_values(name)
get_var_values(st, name) == st.iterate[name]

\* 1 minus the fractions of all phases (get_phase_fraction_unity)
evaluate_y_R_by_phase_fraction_unity(st) ==
    One - SumOver([i \in 1..Len(phases) |->
                      get_var_values(st, FractionName(phases[i]))],
                  1..Len(phases))

\* self._y_R.evaluate(...): 1 minus the fractions of the other phases
evaluate_y_R(st) ==
    One - SumOver([i \in 1..Len(phases) |->
                      IF i = 1 THEN 0 ELSE get_var_values(st, FractionName(phases[i]))],
                  1..Len(phases))

\* the loop over the components of phase e; xi_e and sum_xi_e were read before
RECURSIVE NormalizeComponents(_, _, _, _, _, _)
NormalizeComponents(st, e, comps, xi_e, sum_xi_e, copy_to_state) ==
    IF comps = << >> THEN st
    ELSE LET c == Head(comps)
             xi_ce == xi_e[c]
             chi_ce == RDiv(FromUnits(xi_ce), FromUnits(sum_xi_e))
             s1 == set_var_values(st, <<"xi", c, e>>, Clamp(xi_ce), copy_to_state)
             s2 == set_var_values(s1, <<"chi", c, e>>, RClamp(chi_ce), copy_to_state)
         IN NormalizeComponents(s2, e, Tail(comps), xi_e, sum_xi_e, copy_to_state)

\* the loop over the phases
RECURSIVE PostProcessPhases(_, _, _)
PostProcessPhases(st, ps, copy_to_state) ==
    IF ps = << >> THEN st
    ELSE LET e == Head(ps)
             y_e == Clamp(get_var_values(st, FractionName(e)))
             s1 == set_var_values(st, FractionName(e), y_e, copy_to_state)
             xi_e == [c \in Range(present[e]) |-> get_var_values(s1, <<"xi", c, e>>)]
             sum_xi_e == SumOver(xi_e, DOMAIN xi_e)
             s2 == NormalizeComponents(s1, e, present[e], xi_e, sum_xi_e, copy_to_state)
         IN PostProcessPhases(s2, Tail(ps), copy_to_state)

post_process_fractions(copy_to_state) ==
    /\ pc = "idle"
    /\ numCalls' = numCalls + 1
    /\ IF ~Initialized
       THEN \* self._y_R is assigned by initialize
            /\ last' = [op |-> "post_process_fractions",
                        result |-> "AttributeError"]
            /\ UNCHANGED <<iterate, state>>
       ELSE LET s1 == set_var_values(Store, FractionName(reference_phase),
                                     evaluate_y_R(Store), copy_to_state)
                st == PostProcessPhases(s1, phases, copy_to_state)
            IN /\ iterate' = st.iterate
               /\ state' = st.state
               /\ last' = [op |-> "post_process_fractions", result |-> "ok"]
    /\ fl' = [Idle EXCEPT !.copy_to_state = copy_to_state]
    /\ UNCHANGED <<eos, components, phases, present, pT_subsystem, ph_subsystem,
                   flash_history, max_iter_flash, pc, calls>>

----------------------------------------------------------------------------

----------------------------------------------------------------------------
(* PengRobinsonEoS: the constructor *)

(* eps, and delta and r where they are compared with eps alone, are whole  *)
(* multiples of one unit; the constructor's default eps (1e-14) is 1.      *)
DefaultEps == 1

\* PengRobinsonEoS.__init__(gaslike, eps=eps)
\* the three flag arrays exist once _Z has run; they are empty before
PengRobinsonEoS(gaslike, eps) ==
    [gaslike |-> gaslike, eps |-> eps, components |-> << >>,
     bip_vals |-> << >>, custom_bips |-> << >>,
     is_extended |-> << >>, is_supercritical |-> << >>,
     is_sub_pseudo_critical |-> << >>]

\* no equation of state has been constructed
NoEoS == PengRobinsonEoS(FALSE, DefaultEps)

----------------------------------------------------------------------------
(* PengRobinsonEoS._Z: classification of the root regions *)

degenerate_region(delta, eps) == delta >= -eps /\ delta <= eps

double_root_region(delta, r, eps) ==
    degenerate_region(delta, eps) /\ (r < -eps \/ r > eps)

triple_root_region_open_interval(delta, r, eps) ==
    degenerate_region(delta, eps) /\ (r > -eps /\ r < eps)

triple_root_region(delta, r, eps) ==
    degenerate_region(delta, eps) /\ (r >= -eps /\ r <= eps)

one_root_region(delta, eps) == delta > eps

three_root_region(delta, eps) == delta < -eps

\* the four flags of one cell, in the order of the two assertions
region_flags(delta, r, eps) ==
    <<one_root_region(delta, eps), triple_root_region(delta, r, eps),
      double_root_region(delta, r, eps), three_root_region(delta, eps)>>

\* np.vstack([...]).sum(axis=0) for one cell
trues_per_row(flags) == Cardinality({i \in 1..Len(flags) : flags[i]})

\* the two sanity checks; the first failing assertion ends the call
region_assertions(flags) ==
    IF ~(\E i \in 1..Len(flags) : flags[i])
    THEN "AssertionError: Uncovered cells/rows detected in PR root computation."
    ELSE IF trues_per_row(flags) # 1
         THEN "AssertionError: Regions with different root scenarios overlap."
         ELSE "ok"

(* The classification step of _Z for one cell whose discriminant and       *)
(* reduced coefficient are delta and r.                                    *)
classify_regions(delta, r) ==
    /\ pc = "idle"
    /\ numCalls' = numCalls + 1
    /\ LET flags == region_flags(delta, r, eos.eps) IN
       last' = [op |-> "classify_regions", delta |-> delta, r |-> r,
                flags |-> flags, result |-> region_assertions(flags)]
    /\ UNCHANGED <<eos, components, phases, present, iterate, state,
                   pT_subsystem, ph_subsystem, flash_history, max_iter_flash,
                   pc, fl, calls>>

----------------------------------------------------------------------------
(* PengRobinsonEoS._Z: the roots of the compressibility polynomial         *)
(*                                                                         *)
(* A and B are whole multiples of 1/ABOne. The coefficients and the        *)
(* discriminant are exact: c2 in units of 1/ABOne, c1 of 1/ABOne^2, c0 of  *)
(* 1/ABOne^3, r of 1/(3 ABOne^2), q of 1/(27 ABOne^3) and delta of         *)
(* 1/(2916 ABOne^6). A root is the grid point of the grid 1/ZOne at or     *)
(* next below the real root, found from the sign of the polynomial, and a  *)
(* compressibility factor is a pair <<v, e>> that stands for               *)
(* v/ZOne + e eps. eps is at most a few 1e-14 and so less than one unit of *)
(* every grid used here.                                                   *)
ABOne == 10
ZOne == 400
CritOne == 10000

A_CRIT == 4572               \* in units of 1/CritOne
B_CRIT == 778                \* in units of 1/CritOne
PseudoCriticalSlope == 2367  \* 0.7 * 0.3381965009398633, in units of 1/CritOne

\* eps in the units of a grid, rounded down
GridEps(eps) == 0

\* B, and B_CRIT, in units of 1/ZOne
ZUnits(B) == (B * ZOne) \div ABOne
B_CRIT_ZUnits == (B_CRIT * ZOne) \div CritOne

ZLess(x, y) == x[1] < y[1] \/ (x[1] = y[1] /\ x[2] < y[2])
ZLeq(x, y) == x = y \/ ZLess(x, y)

\* n / d rounded down, for d # 0
FloorDiv(n, d) == IF d > 0 THEN n \div d ELSE (-n) \div (-d)

SetMin(S) == CHOOSE x \in S : \A y \in S : x <= y
SetMax(S) == CHOOSE x \in S : \A y \in S : x >= y

c0(A, B) == B * B * B + B * B * ABOne - A * B * ABOne
c1(A, B) == A * ABOne - 2 * B * ABOne - 3 * B * B
c2(B) == B - ABOne

coeff_r(A, B) == 3 * c1(A, B) - c2(B) * c2(B)
coeff_q(A, B) ==
    2 * c2(B) * c2(B) * c2(B) - 9 * c2(B) * c1(A, B) + 27 * c0(A, B)
discriminant(A, B) ==
    coeff_q(A, B) * coeff_q(A, B)
        + 4 * coeff_r(A, B) * coeff_r(A, B) * coeff_r(A, B)

\* ZOne^3 times the polynomial at Z / ZOne
Z_polynom(Z, A, B) ==
    LET a == (A * ZOne) \div ABOne
        b == ZUnits(B)
    IN ((Z + (b - ZOne)) * Z + (a * ZOne - 2 * b * ZOne - 3 * b * b)) * Z
           - (a * b * ZOne - b * b * b - b * b * ZOne)

is_supercritical(A, B) == B * A_CRIT >= B_CRIT * A

is_sub_pseudo_critical(A, B) ==
    CritOne * B <= B_CRIT * ABOne + PseudoCriticalSlope * A
                       - (PseudoCriticalSlope * A_CRIT * ABOne) \div CritOne

zero_point(A, B, eps) ==
    /\ A >= -GridEps(eps) /\ A <= GridEps(eps)
    /\ B >= -GridEps(eps) /\ B <= GridEps(eps)

critical_point(A, B, eps) ==
    /\ CritOne * A >= (A_CRIT - GridEps(eps)) * ABOne
    /\ CritOne * A <= (A_CRIT + GridEps(eps)) * ABOne
    /\ CritOne * B >= (B_CRIT - GridEps(eps)) * ABOne
    /\ CritOne * B <= (B_CRIT + GridEps(eps)) * ABOne

\* the arguments _Z is called with
AValues == 0..25
BValues == 0..5

\* the grid points the real roots are looked for at
ZGrid == (-(5 * ZOne) \div 4)..((3 * ZOne) \div 2 + 8)

(* The real roots of the polynomial at which it turns positive: the only   *)
(* real root in the one-root region, the smallest and the biggest root in  *)
(* the three-root region.                                                  *)
RealRoots ==
    [A \in AValues, B \in BValues |->
        {z \in ZGrid : Z_polynom(z, A, B) <= 0 /\ Z_polynom(z + 1, A, B) > 0}]

one_root_roots_flag_inverted(A, B) ==
    LET z_1 == SetMax(RealRoots[A, B])
        w == (ZOne - ZUnits(B) - z_1) \div 2 + ZUnits(B) + B_CRIT_ZUnits
        extension_is_bigger == is_sub_pseudo_critical(A, B)
    IN [Z_L |-> IF extension_is_bigger THEN <<z_1, 0>> ELSE <<w, 0>>,
        Z_G |-> IF extension_is_bigger THEN <<w, 0>> ELSE <<z_1, 0>>,
        extension_is_bigger |-> ~extension_is_bigger]

\* the one-root region: the real root and the extension, Z_L and Z_G
one_root_roots(A, B) ==
    LET z_1 == SetMax(RealRoots[A, B])
        w == (ZOne - ZUnits(B) - z_1) \div 2 + ZUnits(B) + B_CRIT_ZUnits
        extension_is_bigger == is_sub_pseudo_critical(A, B)
    IN [Z_L |-> IF extension_is_bigger THEN <<z_1, 0>> ELSE <<w, 0>>,
        Z_G |-> IF extension_is_bigger THEN <<w, 0>> ELSE <<z_1, 0>>,
        extension_is_bigger |-> extension_is_bigger]

\* the three-root region: z1 <= z2 <= z3, smallest is liquid, biggest is gas
three_root_roots(A, B) ==
    [Z_L |-> <<SetMin(RealRoots[A, B]), 0>>,
     Z_G |-> <<SetMax(RealRoots[A, B]), 0>>]

\* the triple root -c2 / 3
triple_root(B) == FloorDiv(-c2(B) * ZOne, 3 * ABOne)

\* the double-root region: u = 3/2 q / r, z_1 = 2u - c2/3, z_23 = -u - c2/3
double_root_roots(A, B) ==
    LET d == 6 * ABOne * coeff_r(A, B)
        z_1 == FloorDiv(
                   (2 * coeff_q(A, B) - 2 * c2(B) * coeff_r(A, B)) * ZOne, d)
        z_23 == FloorDiv(
                    (-coeff_q(A, B) - 2 * c2(B) * coeff_r(A, B)) * ZOne, d)
        double_is_bigger == z_23 > z_1
    IN [Z_L |-> IF double_is_bigger THEN <<z_1, 0>> ELSE <<z_23, 0>>,
        Z_G |-> IF double_is_bigger THEN <<z_23, 0>> ELSE <<z_1, 0>>]

(* _Z(A, B) of an equation of state with the given gaslike and eps, for    *)
(* one cell and without the smoother: the flags, the roots before and      *)
(* after the correction, and the pair that is returned.                    *)
Z_roots(A, B, gaslike, eps) ==
    LET delta == discriminant(A, B)
        r == coeff_r(A, B)
        flags == region_flags(delta, r, GridEps(eps))
        one == one_root_region(delta, GridEps(eps))
        three == three_root_region(delta, GridEps(eps))
        triple == triple_root_region(delta, r, GridEps(eps))
                      \/ critical_point(A, B, eps)
        double == double_root_region(delta, r, GridEps(eps))
                      \/ zero_point(A, B, eps)
        unset == [Z_L |-> <<0, 0>>, Z_G |-> <<0, 0>>]
        in_one == IF one THEN one_root_roots(A, B) ELSE unset
        in_three == IF three THEN three_root_roots(A, B) ELSE in_one
        in_triple == IF triple
                     THEN [Z_L |-> <<triple_root(B), 0>>,
                           Z_G |-> <<triple_root(B), 0>>]
                     ELSE in_three
        in_double == IF double THEN double_root_roots(A, B) ELSE in_triple
        correction == ZLeq(in_double.Z_L, <<ZUnits(B), 0>>)
        Z_L == IF correction THEN <<ZUnits(B), eps>> ELSE in_double.Z_L
        Z_G == in_double.Z_G
        is_extended == IF one
                       THEN (IF gaslike THEN in_one.extension_is_bigger
                             ELSE ~in_one.extension_is_bigger)
                       ELSE FALSE
        result ==
            IF region_assertions(flags) # "ok" THEN region_assertions(flags)
            ELSE IF triple /\ ~(triple_root(B) > ZUnits(B))
                 THEN "AssertionError: Triple-roots violating the lower bound B."
                 ELSE "ok"
    IN [flags |-> flags, result |-> result, is_extended |-> is_extended,
        Z_L |-> Z_L, Z_G |-> Z_G, correction |-> correction,
        roots |-> IF gaslike THEN <<Z_G, Z_L>> ELSE <<Z_L, Z_G>>]

(* A call of _Z with the scalar arguments A and B, which it turns into    *)
(* arrays of one cell. The object keeps the flags of the call.             *)
compute_Z(A, B) ==
    /\ pc = "idle"
    /\ numCalls' = numCalls + 1
    /\ LET z == Z_roots(A, B, eos.gaslike, eos.eps) IN
       /\ last' = [op |-> "_Z", A |-> A, B |-> B, flags |-> z.flags,
                   result |-> z.result, roots |-> z.roots,
                   is_extended |-> z.is_extended,
                   correction |-> z.correction]
       /\ eos' = [eos EXCEPT
                     !.is_extended = <<z.is_extended>>,
                     !.is_supercritical = <<is_supercritical(A, B)>>,
                     !.is_sub_pseudo_critical =
                         <<is_sub_pseudo_critical(A, B)>>]
    /\ UNCHANGED <<components, phases, present, iterate, state,
                   pT_subsystem, ph_subsystem, flash_history, max_iter_flash,
                   pc, fl, calls>>

(* _Z on arrays A and B of n cells.  The blocks of the three-root, the    *)
(* triple-root and the double-root region and the correction slice every  *)
(* array with the mask of their region.  The block of the one-root region *)
(* computes `w` from the k values z_1 and the whole array B, and indexes  *)
(* z_1 and w with the whole mask is_sub_pseudo_critical.                   *)
one_root_cells(cells, eps) ==
    {i \in 1..Len(cells) :
        one_root_region(discriminant(cells[i][1], cells[i][2]), GridEps(eps))}

\* the shapes in the one-root block with k of n cells in the region
one_root_block(n, k) ==
    IF k = 0 \/ k = n THEN "ok"
    ELSE IF k = 1
         THEN \* w has n values; z_1 has one value and is indexed by n flags
              "IndexError"
         ELSE \* shapes (n,) and (k,) in (1 - B - z_1)
              "ValueError"

\* the outcome of every block for every cell
cell_results(cells, gaslike, eps) ==
    [i \in 1..Len(cells) |->
        Z_roots(cells[i][1], cells[i][2], gaslike, eps)]

\* the call on n cells of which k are in the one-root region
Z_blocks(cell, n, k) ==
    LET unsound == {i \in 1..n : region_assertions(cell[i].flags) # "ok"}
        failed == {i \in 1..n : cell[i].result # "ok"}
    IN [result |->
            IF unsound # {}
            THEN region_assertions(cell[SetMin(unsound)].flags)
            ELSE IF one_root_block(n, k) # "ok" THEN one_root_block(n, k)
                 ELSE IF failed # {} THEN cell[SetMin(failed)].result
                      ELSE "ok",
        roots |-> [i \in 1..n |-> cell[i].roots],
        \* is_extended is written at the end of the one-root block
        is_extended |-> [i \in 1..n |->
                            IF unsound = {} /\ one_root_block(n, k) = "ok"
                            THEN cell[i].is_extended ELSE FALSE]]

Z_cells(cells, gaslike, eps) ==
    Z_blocks(cell_results(cells, gaslike, eps), Len(cells),
             Cardinality(one_root_cells(cells, eps)))

\* the object and the record of the call after _Z on the cells
after_Z_cells(cells, z) ==
    /\ last' = [op |-> "_Z cells", cells |-> cells, result |-> z.result,
                roots |-> z.roots]
    /\ eos' = [eos EXCEPT
                  !.is_extended = z.is_extended,
                  !.is_supercritical =
                      [i \in 1..Len(cells) |->
                          is_supercritical(cells[i][1], cells[i][2])],
                  !.is_sub_pseudo_critical =
                      [i \in 1..Len(cells) |->
                          is_sub_pseudo_critical(cells[i][1], cells[i][2])]]

\* a call of _Z with arrays of Len(cells) cells
compute_Z_cells(cells) ==
    /\ pc = "idle"
    /\ numCalls' = numCalls + 1
    /\ after_Z_cells(cells, Z_cells(cells, eos.gaslike, eos.eps))
    /\ UNCHANGED <<components, phases, present, iterate, state,
                   pT_subsystem, ph_subsystem, flash_history, max_iter_flash,
                   pc, fl, calls>>

----------------------------------------------------------------------------
(* PengRobinsonEoS.components (setter) and _compute_bips                   *)
(*                                                                         *)
(* A component is its CASr_number, whether it has an attribute bip_map,    *)
(* and the CASr numbers its bip_map has a callable for. The callable of    *)
(* component c for component d is the pair <<c, d>>.                       *)
Component_PR(CASr_number, has_bip_map, bip_map) ==
    [CASr_number |-> CASr_number, has_bip_map |-> has_bip_map,
     bip_map |-> bip_map]

\* hasattr(comp, "bip_map") and comp.bip_map.get(other.CASr_number) is not None
supplies_bip(comp, other) ==
    comp.has_bip_map /\ other.CASr_number \in comp.bip_map

\* pr_bip.load_bip: the value of the static table in thousandths, zero for a
\* pair the table does not have
load_bip(CASr_1, CASr_2) ==
    IF {CASr_1, CASr_2} = {"H2O", "CO2"} THEN 120
    ELSE IF {CASr_1, CASr_2} = {"CO2", "N2"} THEN -17
    ELSE 0

\* np.zeros((nc, nc))
zeros(nc) == [k \in (1..nc) \X (1..nc) |-> 0]

\* the first loop over j > i: the components i has a callable for
customs_for(comps, i) ==
    IF comps[i].has_bip_map
    THEN {j \in (i + 1)..Len(comps) : supplies_bip(comps[i], comps[j])}
    ELSE {}

(* One pass of the second loop over j, for row i. st holds _bip_vals,      *)
(* bip_callables, the pairs a double implementation was logged for, and    *)
(* the assertion that failed, if one did.                                  *)
RECURSIVE BipColumns(_, _, _, _)
BipColumns(st, comps, i, j) ==
    IF j > Len(comps) \/ st.raised # "no" THEN st
    ELSE
    LET comp_i == comps[i]
        comp_j == comps[j]
        bip_c == <<comp_j.CASr_number, comp_i.CASr_number>>
        found == supplies_bip(comp_j, comp_i)
        stored == <<i, j>> \in DOMAIN st.bip_callables
    IN IF comp_j.has_bip_map /\ j \in customs_for(comps, i)
       THEN BipColumns(
                IF found THEN [st EXCEPT !.warnings = @ \cup {<<i, j>>}]
                ELSE st,
                comps, i, j + 1)
       ELSE IF comp_j.has_bip_map /\ found
            THEN IF stored
                 THEN [st EXCEPT !.raised = "AssertionError"]
                 ELSE BipColumns(
                          [st EXCEPT !.bip_callables =
                               (<<i, j>> :> bip_c) @@ @],
                          comps, i, j + 1)
            ELSE IF stored
                 THEN [st EXCEPT
                          !.raised = "AssertionError: Overwriting custom BIP."]
                 ELSE BipColumns(
                          [st EXCEPT !.bip_vals[<<i, j>>] =
                               load_bip(comp_i.CASr_number,
                                        comp_j.CASr_number)],
                          comps, i, j + 1)

\* the loop over i: the callables of component i for later components are
\* stored first, then the columns are visited
RECURSIVE BipRows(_, _, _)
BipRows(st, comps, i) ==
    IF i > Len(comps) \/ st.raised # "no" THEN st
    ELSE
    LET own == [k \in {<<i, j>> : j \in customs_for(comps, i)} |->
                   <<comps[i].CASr_number, comps[k[2]].CASr_number>>]
        s1 == [st EXCEPT !.bip_callables = own @@ @]
    IN BipRows(BipColumns(s1, comps, i, 1), comps, i + 1)

\* the setter up to the point where it stores the callables
resolve_bips(comps) ==
    BipRows([bip_vals |-> zeros(Len(comps)), bip_callables |-> << >>,
             warnings |-> {}, raised |-> "no"], comps, 1)

(* eos.components = comps. The matrix of constant BIPs is assigned before  *)
(* the loops and filled in place; the callables and the components are     *)
(* stored after them.                                                      *)
set_components(comps) ==
    /\ pc = "idle"
    /\ numCalls' = numCalls + 1
    /\ LET st == resolve_bips(comps) IN
       /\ eos' = IF st.raised = "no"
                 THEN [eos EXCEPT !.bip_vals = st.bip_vals,
                                  !.custom_bips = st.bip_callables,
                                  !.components = comps]
                 ELSE [eos EXCEPT !.bip_vals = st.bip_vals]
       /\ last' = [op |-> "components", components |-> comps,
                   warnings |-> st.warnings,
                   result |-> IF st.raised = "no" THEN "ok" ELSE st.raised]
    /\ UNCHANGED <<components, phases, present, iterate, state, pT_subsystem,
                   ph_subsystem, flash_history, max_iter_flash, pc, fl,
                   calls>>

(* _compute_bips: the entry [i][j] is the constant BIP unless a callable   *)
(* is stored for (i, j), whose value at T then replaces it.                *)
compute_bips(e) ==
    [k \in DOMAIN e.bip_vals |->
        IF k \in DOMAIN e.custom_bips
        THEN [custom |-> TRUE, callable |-> e.custom_bips[k], value |-> 0]
        ELSE [custom |-> FALSE, callable |-> <<"", "">>,
              value |-> e.bip_vals[k]]]

----------------------------------------------------------------------------
(* PengRobinsonEoS.compute *)

num_frac_check_too_few(X, comps) == X < Len(comps)

\* _num_frac_check: X is the number of passed fractions; true where the
\* ValueError is raised
num_frac_check(X, comps) == X # Len(comps)

(* compute(p, T, X) with X fractions. A and B are the non-dimensional      *)
(* cohesion and covolume that _A and _B give for the passed state; the     *)
(* properties computed from the root are not part of the state.            *)
compute(X, A, B) ==
    /\ pc = "idle"
    /\ numCalls' = numCalls + 1
    /\ IF num_frac_check(X, eos.components)
       THEN /\ last' = [op |-> "compute", X |-> X, result |-> "ValueError"]
            /\ UNCHANGED eos
       ELSE LET z == Z_roots(A, B, eos.gaslike, eos.eps) IN
            /\ last' = [op |-> "compute", X |-> X, result |-> z.result]
            /\ eos' = [eos EXCEPT
                          !.is_extended = <<z.is_extended>>,
                          !.is_supercritical = <<is_supercritical(A, B)>>,
                          !.is_sub_pseudo_critical =
                              <<is_sub_pseudo_critical(A, B)>>]
    /\ UNCHANGED <<components, phases, present, iterate, state,
                   pT_subsystem, ph_subsystem, flash_history, max_iter_flash,
                   pc, fl, calls>>

\* the state after the constructor of a child class has created its phases
Init ==
    /\ components = << >>
    /\ phases \in PhaseLists
    /\ present = [e \in Range(phases) |-> << >>]
    /\ iterate = [v \in {<<"p">>, <<"h">>, <<"T">>}
                        \cup {<<"s", e>> : e \in Range(phases)}
                        \cup {<<"y", e>> : e \in Range(phases)} |->
                      IF v[1] = "s" THEN RZero ELSE 0]
    /\ state = iterate
    /\ pT_subsystem = EmptySubsystem
    /\ ph_subsystem = EmptySubsystem
    /\ flash_history = << >>
    /\ max_iter_flash = DefaultMaxIterFlash
    /\ pc = "idle"
    /\ fl = Idle
    /\ last = [op |-> "init", result |-> "ok"]
    /\ numCalls = 0
    /\ calls = << >>
    /\ eos = NoEoS

\* lists without a repeated or foreign component
DistinctLists ==
    {l \in Lists(ComponentNames, MaxListLen) :
        \A i, j \in 1..Len(l) : i # j => l[i] # l[j]}

(* The composition with flash calls; add_component is called with lists    *)
(* that name no component twice.                                           *)
Next ==
    \/ \E list \in DistinctLists : add_component(list)
    \/ initialize
    \/ \E n \in 0..MaxIter : SetMaxIterFlash(n)
    \/ \E kind \in FlashKinds, copy_to_state \in BOOLEAN,
          initial_guess \in {"iterate", "uniform"} :
          numCalls < MaxCalls /\ FlashStart(kind, copy_to_state, initial_guess)
    \/ \E step \in StepKinds : NewtonIter(step)
    \/ FlashEnd

Spec == Init /\ [][Next]_vars

(* Composition set-up with every argument add_component accepts, in any    *)
(* order with initialize.                                                  *)
SetupNext ==
    \/ \E list \in Lists(ComponentNames \cup ForeignComponents, MaxListLen) :
          add_component(list)
    \/ initialize

SpecSetup == Init /\ [][SetupNext]_vars

(* A long run of flash calls on a two-phase, two-component composition.    *)
(* The arguments of a call follow from its number, so that the run is one  *)
(* line of calls; the kind of the calls made once the history is nearly    *)
(* full is free.                                                           *)
HistoryArgs(kind, copy_to_state, initial_guess) ==
    /\ numCalls + 2 < max_history =>
          kind = (IF numCalls % 2 = 0 THEN "isothermal" ELSE "isenthalpic")
    /\ copy_to_state = (numCalls % 5 = 0)
    /\ initial_guess = (IF numCalls % 3 = 0 THEN "uniform" ELSE "iterate")

HistoryNext ==
    \/ components = << >> /\ add_component(<<"H2O", "CO2">>)
    \/ components # << >> /\ ~Initialized /\ initialize
    \/ Initialized /\ SetMaxIterFlash(1)
    \/ \E kind \in FlashKinds, copy_to_state \in BOOLEAN,
          initial_guess \in {"iterate", "uniform"} :
          /\ numCalls < MaxHistCalls
          /\ HistoryArgs(kind, copy_to_state, initial_guess)
          /\ FlashStart(kind, copy_to_state, initial_guess)
    \/ NewtonIter("short")
    \/ FlashEnd

InitHistory == Init /\ phases = <<"L", "G">>

SpecHistory == InitHistory /\ [][HistoryNext]_vars

----------------------------------------------------------------------------
(* Composition.evaluate_saturations *)

Quotient(value, divided_by_zero) ==
    [value |-> value, divided_by_zero |-> divided_by_zero]

\* the formula with the densities multiplied
TwoPhaseFormula_density_product(y_j, rho_i, rho_j) ==
    LET one_minus == RSub(ROne, y_j)
        t1 == RDiv(y_j, one_minus)
        t2 == RMul(t1, Rat(rho_i, 1))
        t3 == RMul(t2, Rat(rho_j, 1))
        t4 == RAdd(ROne, t3)
    IN Quotient(RDiv(ROne, t4), one_minus[1] = 0 \/ t4[1] = 0)

\* 1.0 / (1.0 + y_j / (1.0 - y_j) * rho_i / rho_j), evaluated left to right
TwoPhaseFormula(y_j, rho_i, rho_j) ==
    LET one_minus == RSub(ROne, y_j)
        t1 == RDiv(y_j, one_minus)
        t2 == RMul(t1, Rat(rho_i, 1))
        t3 == RDiv(t2, Rat(rho_j, 1))
        t4 == RAdd(ROne, t3)
    IN Quotient(RDiv(ROne, t4),
                one_minus[1] = 0 \/ rho_j = 0 \/ t4[1] = 0)

\* _2phase_saturation_evaluation with the densities divided the other way
two_phase_saturations_inverted_densities(y1, y2, rho1, rho2) ==
    LET phase1_saturated == y1 = ROne
        phase2_saturated == y2 = ROne
        f1 == TwoPhaseFormula(y2, rho2, rho1)
        f2 == TwoPhaseFormula(y1, rho1, rho2)
        s1 == IF phase2_saturated THEN RZero
              ELSE IF phase1_saturated THEN ROne ELSE f1.value
        s2 == IF phase2_saturated THEN ROne
              ELSE IF phase1_saturated THEN RZero ELSE f2.value
    IN [s1 |-> s1, s2 |-> s2,
        divided_by_zero |-> (~phase2_saturated /\ f1.divided_by_zero)
                            \/ (~phase1_saturated /\ f2.divided_by_zero)]

\* _2phase_saturation_evaluation in one cell: the formula where the other
\* phase is not saturated, then the assignments of the saturated cells
two_phase_saturations(y1, y2, rho1, rho2) ==
    LET phase1_saturated == y1 = ROne
        phase2_saturated == y2 = ROne
        f1 == TwoPhaseFormula(y2, rho1, rho2)
        f2 == TwoPhaseFormula(y1, rho2, rho1)
        s1 == IF phase2_saturated THEN RZero
              ELSE IF phase1_saturated THEN ROne ELSE f1.value
        s2 == IF phase2_saturated THEN ROne
              ELSE IF phase1_saturated THEN RZero ELSE f2.value
    IN [s1 |-> s1, s2 |-> s2,
        divided_by_zero |-> (~phase2_saturated /\ f1.divided_by_zero)
                            \/ (~phase1_saturated /\ f2.divided_by_zero)]

\* sps.linalg.spsolve for the matrix with zero diagonal ((0 a b) (c 0 d) (e f 0))
\* and right-hand side (1 1 1), by Cramer's rule
spsolve3(a, b, c, d, e, f) ==
    LET det == RAdd(RMul(a, RMul(d, e)), RMul(b, RMul(c, f)))
        n1 == RAdd(RSub(RMul(a, d), RMul(d, f)), RMul(b, f))
        n2 == RAdd(RSub(RMul(d, e), RMul(b, e)), RMul(b, c))
        n3 == RAdd(RSub(RMul(a, e), RMul(a, c)), RMul(c, f))
    IN <<RDiv(n1, det), RDiv(n2, det), RDiv(n3, det)>>

\* the matrix entry 1.0 + rho[j] / rho[i] * y[i] / denominator
MatrixEntry(y, rho, i, j) ==
    LET difference == RSub(ROne, y[i])
        denominator == IF difference = RZero THEN ROne ELSE difference
    IN RAdd(ROne, RDiv(RMul(RDiv(Rat(rho[j], 1), Rat(rho[i], 1)), y[i]),
                       denominator))

(* _multi_phase_saturation_evaluation in one cell for three phases, from   *)
(* the values y it has read: the saturated and vanished phases, the system *)
(* over the others, then the assignments of 1 and 0.                       *)
multi_phase_saturations(y, rho) ==
    LET n == Len(y)
        saturated == [i \in 1..n |-> y[i] = ROne]
        vanished == [j \in 1..n |-> \E i \in 1..n : i # j /\ saturated[i]]
        multiphase == [i \in 1..n |-> ~(saturated[i] \/ vanished[i])]
        s == spsolve3(MatrixEntry(y, rho, 1, 2), MatrixEntry(y, rho, 1, 3),
                      MatrixEntry(y, rho, 2, 1), MatrixEntry(y, rho, 2, 3),
                      MatrixEntry(y, rho, 3, 1), MatrixEntry(y, rho, 3, 2))
    IN [i \in 1..n |->
          IF vanished[i] THEN RZero
          ELSE IF saturated[i] THEN ROne
          ELSE IF multiphase[i] THEN s[i] ELSE RZero]

RECURSIVE SetSaturations(_, _, _, _)
SetSaturations(st, ps, values, copy_to_state) ==
    IF ps = << >> THEN st
    ELSE SetSaturations(set_var_values(st, SaturationName(Head(ps)),
                                       Head(values), copy_to_state),
                        Tail(ps), Tail(values), copy_to_state)

Densities == {1, 2}

\* evaluate_saturations; rho is the density of every phase at the current p, T
evaluate_saturations(copy_to_state, rho) ==
    /\ pc = "idle"
    /\ numCalls' = numCalls + 1
    /\ LET n == Len(phases)
           density == [i \in 1..n |-> rho[phases[i]]]
           two == two_phase_saturations(
                      FromUnits(get_var_values(Store, FractionName(phases[1]))),
                      FromUnits(get_var_values(Store, FractionName(phases[2]))),
                      density[1], density[2])
           \* the values read under phase.saturation_name
           y == [i \in 1..n |-> get_var_values(Store, SaturationName(phases[i]))]
           values == IF n = 1 THEN <<ROne>>
                     ELSE IF n = 2 THEN <<two.s1, two.s2>>
                     ELSE IF n >= 3 THEN multi_phase_saturations(y, density)
                     ELSE << >>
           st == SetSaturations(Store, phases, values, copy_to_state)
       IN /\ iterate' = st.iterate
          /\ state' = st.state
          /\ last' = [op |-> "evaluate_saturations",
                      result |-> IF n = 2 /\ two.divided_by_zero
                                 THEN "RuntimeWarning" ELSE "ok",
                      rho |-> density]
    /\ fl' = [Idle EXCEPT !.copy_to_state = copy_to_state]
    /\ UNCHANGED <<eos, components, phases, present, pT_subsystem, ph_subsystem,
                   flash_history, max_iter_flash, pc, calls>>

(* post_process_fractions on an initialized composition of two phases with *)
(* two components each; the phase fractions and the extended fractions are *)
(* the values a flash or another model has left in the AD system.          *)
FractionValues == {-1, 0, 3, 6, 7}

FractionPhases == <<"L", "G">>
FractionComponents == <<"H2O", "CO2">>

\* the variables created by the phases and components, with the values at creation
CreatedValues(ps, comps) ==
    [v \in {<<"p">>, <<"h">>, <<"T">>}
           \cup {<<"s", e>> : e \in Range(ps)}
           \cup {<<"y", e>> : e \in Range(ps)}
           \cup {<<"z", c>> : c \in Range(comps)}
           \cup {<<"xi", c, e>> : c \in Range(comps), e \in Range(ps)}
           \cup {<<"chi", c, e>> : c \in Range(comps), e \in Range(ps)} |->
        IF v[1] \in {"s", "chi"} THEN RZero ELSE 0]

\* the molar fractions of phases ps with components comps
MolarFractionNames(ps, comps) ==
    {<<"y", e>> : e \in Range(ps)}
    \cup {<<"xi", c, e>> : c \in Range(comps), e \in Range(ps)}

\* an initialized composition whose variables `names` hold any of the values
InitWithFractions(ps, comps, names) ==
    /\ components = comps
    /\ phases = ps
    /\ present = [e \in Range(ps) |-> comps]
    /\ \E f \in [names -> FractionValues] :
          iterate = [v \in DOMAIN CreatedValues(ps, comps) |->
                        IF v \in DOMAIN f THEN f[v] ELSE CreatedValues(ps, comps)[v]]
    /\ state = iterate
    /\ pT_subsystem = Subsystem(TRUE)
    /\ ph_subsystem = Subsystem(FALSE)
    /\ flash_history = << >>
    /\ max_iter_flash = DefaultMaxIterFlash
    /\ pc = "idle"
    /\ fl = Idle
    /\ last = [op |-> "initialize", result |-> "ok"]
    /\ numCalls = 0
    /\ calls = << >>
    /\ eos = NoEoS

InitFractions ==
    InitWithFractions(FractionPhases, FractionComponents,
                      MolarFractionNames(FractionPhases, FractionComponents))

FractionsNext ==
    \E copy_to_state \in BOOLEAN :
        numCalls < MaxCalls /\ post_process_fractions(copy_to_state)

SpecFractions == InitFractions /\ [][FractionsNext]_vars

(* evaluate_saturations on an initialized composition of one, two or      *)
(* three phases with one component; the phase fractions are the values a   *)
(* flash has left, the saturations are those of the creation or of an      *)
(* earlier evaluation.                                                     *)
SaturationPhaseLists == {<<"L">>, <<"L", "G">>, <<"L", "G", "O">>}

InitSaturations ==
    \E ps \in SaturationPhaseLists :
        InitWithFractions(ps, <<"H2O">>, {<<"y", e>> : e \in Range(ps)})

SaturationsNext ==
    \E copy_to_state \in BOOLEAN, rho \in [Range(phases) -> Densities] :
        numCalls < MaxCalls /\ evaluate_saturations(copy_to_state, rho)

SpecSaturations == InitSaturations /\ [][SaturationsNext]_vars

(* The compressibility factor: an equation of state is constructed, then   *)
(* _Z is called on single cells, and its classification is taken through   *)
(* values of the discriminant and of r around eps.                         *)
EpsValues == {0, DefaultEps, 2 * DefaultEps}
RegionValues == -3..3

InitZ ==
    /\ Init
    /\ phases = <<"L", "G">>

ConstructEoS(gaslike, eps) ==
    /\ last.op = "init"
    /\ eos' = PengRobinsonEoS(gaslike, eps)
    /\ last' = [op |-> "PengRobinsonEoS", result |-> "ok"]
    /\ UNCHANGED <<components, phases, present, iterate, state, pT_subsystem,
                   ph_subsystem, flash_history, max_iter_flash, pc, fl,
                   numCalls, calls>>

ZNext ==
    \/ \E gaslike \in BOOLEAN, eps \in EpsValues : ConstructEoS(gaslike, eps)
    \/ \E delta \in RegionValues, r \in RegionValues :
          /\ last.op # "init" /\ numCalls < MaxCalls
          /\ classify_regions(delta, r)
    \/ \E A \in AValues, B \in BValues :
          /\ last.op # "init" /\ numCalls < MaxCalls
          /\ compute_Z(A, B)

SpecZ == InitZ /\ [][ZNext]_vars

(* The components setter: an equation of state is constructed and given    *)
(* three components, each without a bip_map or with a bip_map that has     *)
(* callables for any of the other two.                                     *)
BipComponents == <<"H2O", "CO2", "N2">>

ComponentObjects(c) ==
    {Component_PR(c, FALSE, {})}
        \cup {Component_PR(c, TRUE, S) :
                  S \in SUBSET (Range(BipComponents) \ {c})}

ComponentLists ==
    {l \in [1..Len(BipComponents) ->
               UNION {ComponentObjects(c) : c \in Range(BipComponents)}] :
        \A i \in 1..Len(BipComponents) : l[i].CASr_number = BipComponents[i]}

BipsNext ==
    \/ \E gaslike \in BOOLEAN : ConstructEoS(gaslike, DefaultEps)
    \/ \E comps \in ComponentLists :
          /\ last.op # "init" /\ numCalls < MaxCalls
          /\ set_components(comps)

SpecBips == InitZ /\ [][BipsNext]_vars

(* Calls of compute on an equation of state, before and after its          *)
(* components are set; the components have empty BIP maps.                 *)
SampleCells == {<<0, 0>>, <<1, 1>>, <<2, 2>>, <<3, 1>>, <<10, 2>>}

ComputeComponentLists ==
    {<<Component_PR("H2O", TRUE, {})>>,
     <<Component_PR("H2O", TRUE, {}), Component_PR("CO2", TRUE, {})>>}

ComputeNext ==
    \/ \E gaslike \in BOOLEAN : ConstructEoS(gaslike, DefaultEps)
    \/ \E comps \in ComputeComponentLists :
          /\ last.op = "PengRobinsonEoS"
          /\ set_components(comps)
    \/ \E X \in 0..3, cell \in SampleCells :
          /\ last.op # "init" /\ numCalls <= MaxCalls
          /\ compute(X, cell[1], cell[2])

SpecCompute == InitZ /\ [][ComputeNext]_vars

(* Phase.add_component called directly on the phases of a two-phase       *)
(* composition that holds water; the fractions are the values a flash has  *)
(* left in the AD system.                                                  *)
InitPhase ==
    InitWithFractions(FractionPhases, <<"H2O">>,
                      {<<"xi", "H2O", e>> : e \in Range(FractionPhases)})

PhaseNext ==
    \E e \in Range(phases),
       list \in Lists(ComponentNames \cup ForeignComponents, MaxListLen) :
        phase_add_component(e, list)

SpecPhase == InitPhase /\ [][PhaseNext]_vars

(* _Z on arrays of up to MaxCells cells taken from the sample cells, which *)
(* lie in the double-root, the three-root and the one-root region; one     *)
(* call is made on each equation of state.                                 *)
CellLists == UNION {[1..n -> SampleCells] : n \in 1..MaxCells}

CellsNext ==
    \/ \E gaslike \in BOOLEAN : ConstructEoS(gaslike, DefaultEps)
    \/ \E cells \in CellLists :
          /\ last.op = "PengRobinsonEoS"
          /\ compute_Z_cells(cells)

SpecCells == InitZ /\ [][CellsNext]_vars

(* evaluate_saturations on an initialized two-phase composition whose      *)
(* phase fractions satisfy unity: y_L is any multiple of 1/One in [0, 1]   *)
(* and y_G = 1 - y_L, as a flash with post-processing leaves them.         *)
InitUnity ==
    /\ components = <<"H2O">>
    /\ phases = FractionPhases
    /\ present = [e \in Range(phases) |-> components]
    /\ \E y1 \in 0..One :
          iterate = [CreatedValues(phases, components) EXCEPT
                        ![FractionName(phases[1])] = y1,
                        ![FractionName(phases[2])] = One - y1]
    /\ state = iterate
    /\ pT_subsystem = Subsystem(TRUE)
    /\ ph_subsystem = Subsystem(FALSE)
    /\ flash_history = << >>
    /\ max_iter_flash = DefaultMaxIterFlash
    /\ pc = "idle"
    /\ fl = Idle
    /\ last = [op |-> "initialize", result |-> "ok"]
    /\ numCalls = 0
    /\ calls = << >>
    /\ eos = NoEoS

SpecUnity == InitUnity /\ [][SaturationsNext]_vars

----------------------------------------------------------------------------
(* Properties *)

\* a flash call on an initialized composition has just ended
FlashEnded == pc = "idle" /\ last.op \in FlashKinds /\ last.result # "KeyError"

\* the call has returned a boolean
FlashReturned == FlashEnded /\ last.result \in {"True", "False"}

Tol2 == flash_tolerance * flash_tolerance

Min(a, b) == IF a < b THEN a ELSE b

LastN(s, n) == SubSeq(s, Len(s) - n + 1, Len(s))

NoDuplicates(s) == \A i, j \in 1..Len(s) : i # j => s[i] # s[j]

IsPrefix(s, t) == Len(s) <= Len(t) /\ SubSeq(t, 1, Len(s)) = s

Count(s, x) == Cardinality({i \in 1..Len(s) : s[i] = x})

(* C1: a flash call that ends without convergence returns False and leaves *)
(* the STATE value of every variable as it was before the call.            *)
C1_FailedFlashReturnsFalseStateKept ==
    (FlashEnded /\ ~fl.success) =>
        (last.result = "False" /\ state = fl.state0)

(* C2: every flash call on an initialized composition appends exactly one  *)
(* entry to flash_history; its success flag is the returned value, its     *)
(* kind is that of the method called and its iteration count is the number *)
(* of Newton updates applied.                                              *)
C2_EveryCallAppendsItsEntry ==
    [][(pc = "entry" /\ pc' = "idle") =>
          /\ last'.result \in {"True", "False"}
          /\ Len(flash_history') = Len(flash_history) + 1
          /\ SubSeq(flash_history', 1, Len(flash_history)) = flash_history
          /\ LET e == flash_history'[Len(flash_history')]
             IN /\ e.success = (last'.result = "True")
                /\ e.flash = fl.flash
                /\ e.iterations = fl.solves]_vars

(* C3: flash_history holds at most 100 entries, oldest first, and they are *)
(* the most recent min(k, 100) entries of the k calls made.                *)
C3_HistoryIsLastHundred ==
    /\ Len(flash_history) <= max_history
    /\ flash_history = LastN(calls, Min(Len(calls), max_history))

C3_Witness == pc = "idle" /\ Len(calls) = max_history + 2

(* C4: for every max_iter_flash >= 0, a flash call whose Newton loop is    *)
(* exhausted without convergence does not raise: it returns False and has  *)
(* recorded its history entry.                                             *)
C4_ExhaustedLoopDoesNotRaise ==
    (FlashEnded /\ ~fl.success) =>
        /\ last.result # "UnboundLocalError"
        /\ last.result = "False"
        /\ Len(calls) = fl.calls0 + 1
        /\ calls[Len(calls)].success = FALSE

(* C5: when a flash call returns True, with copy_to_state=True the STATE   *)
(* of every primary variable of the subsystem equals its ITERATE (after    *)
(* k >= 1 iterations and after zero iterations alike); with                *)
(* copy_to_state=False the STATE is unchanged.                             *)
C5_SuccessCommitsIterate ==
    (FlashEnded /\ last.result = "True") =>
        IF fl.copy_to_state
        THEN \A v \in Range(fl.var_names) : state[v] = iterate[v]
        ELSE state = fl.state0

(* C6: a flash call returns True exactly if the residual at the final      *)
(* working iterate is within the tolerance; it returns False only if the   *)
(* initial residual and the residual after each of the max_iter_flash      *)
(* updates exceeded the tolerance; no update follows a residual within the *)
(* tolerance.                                                              *)
C6_TrueIffFinalResidualWithinTolerance ==
    /\ FlashEnded =>
          ((last.result = "True") <=>
              Norm2(assemble_subsystem(iterate, fl.var_names)) <= Tol2)
    /\ (FlashEnded /\ last.result = "False") =>
          /\ Len(fl.norms) = max_iter_flash + 1
          /\ \A k \in 1..Len(fl.norms) : fl.norms[k] > Tol2
    /\ pc # "idle" =>
          \A k \in 1..(Len(fl.norms) - 1) : fl.norms[k] > Tol2
    /\ FlashEnded =>
          \A k \in 1..(Len(fl.norms) - 1) : fl.norms[k] > Tol2

\* both outcomes after at least one update, the success at the tolerance itself
C6_Witness ==
    /\ FlashReturned
    /\ last.result = "True"
    /\ fl.solves >= 1
    /\ fl.norms[Len(fl.norms)] = Tol2

(* C7: every flash call performs at most max_iter_flash linear solves and  *)
(* updates and then returns success or failure; the recorded iteration     *)
(* count never exceeds max_iter_flash.                                     *)
C7_FlashReturnsWithinMaxIter ==
    /\ fl.solves <= max_iter_flash
    /\ FlashEnded =>
          /\ last.result \in {"True", "False"}
          /\ Len(calls) > fl.calls0
          /\ calls[Len(calls)].iterations <= max_iter_flash

C9_ComponentsAddedOnce ==
    [][/\ NoDuplicates(components')
       /\ IsPrefix(components, components')
       /\ Range(components') = Range(components) =>
             UNCHANGED <<components, present, iterate, state>>]_vars

(* C10: after initialize with N components the equations of each           *)
(* subsystem hold exactly one mass conservation equation per non-reference *)
(* component and none for the reference component when N >= 2, and exactly *)
(* the single component's one when N = 1.                                  *)
MassEquationsAsClaimed(equations) ==
    LET mass == SelectSeq(equations, LAMBDA n : n[1] = "flash_mass")
    IN IF Len(components) = 1
       THEN mass = <<<<"flash_mass", components[1]>>>>
       ELSE /\ Count(equations, <<"flash_mass", reference_component>>) = 0
            /\ \A c \in Range(components) \ {reference_component} :
                  Count(equations, <<"flash_mass", c>>) = 1

C10_OneMassEquationPerNonReference ==
    (last.op = "initialize" /\ last.result = "ok") =>
        /\ MassEquationsAsClaimed(pT_subsystem.equations)
        /\ MassEquationsAsClaimed(ph_subsystem.equations)

\* initialize has just succeeded
JustInitialized == last.op = "initialize" /\ last.result = "ok"

\* the partition of the variables of one subsystem, T apart
PartitionAsClaimed(subsystem) ==
    LET primary == Range(subsystem.primary_vars)
        secondary == Range(subsystem.secondary_vars)
    IN /\ primary \cap secondary = {}
       /\ {<<"p">>, <<"h">>} \subseteq secondary
       /\ \A c \in Range(components) : <<"z", c>> \in secondary
       /\ \A e \in Range(phases) : <<"s", e>> \in secondary
       /\ <<"y", reference_phase>> \in secondary
       /\ \A e \in Range(phases) \ {reference_phase} : <<"y", e>> \in primary
       /\ \A e \in Range(phases) : \A c \in Range(present[e]) :
             <<"xi", c, e>> \in primary

PhaseFractionSum(values) == SumOver(values, {<<"y", e>> : e \in Range(phases)})

(* C12: after every successful flash the stored phase fractions satisfy    *)
(* unity: the fraction of the reference phase plus the sum of the          *)
(* fractions of all other phases equals 1.                                 *)
C12_PhaseFractionUnityAfterFlash ==
    (FlashEnded /\ last.result = "True") =>
        /\ PhaseFractionSum(iterate) = One
        /\ fl.copy_to_state => PhaseFractionSum(state) = One

\* post_process_fractions has just returned
PostProcessed(op, result) == op = "post_process_fractions" /\ result = "ok"

InUnitInterval(v) == 0 <= v /\ v <= One

\* a quotient that is a number in [0, 1]
RInUnitInterval(a) == a[2] > 0 /\ 0 <= a[1] /\ a[1] <= a[2]

ExtendedNames(e) == {<<"xi", c, e>> : c \in Range(present[e])}

\* all phase fractions in [0,1] with sum 1, and the same for the extended
\* fractions of every phase
NormalizedInBounds(values) ==
    /\ \A e \in Range(phases) : InUnitInterval(values[<<"y", e>>])
    /\ PhaseFractionSum(values) = One
    /\ \A e \in Range(phases) :
          /\ \A v \in ExtendedNames(e) : InUnitInterval(values[v])
          /\ SumOver(values, ExtendedNames(e)) = One

(* C13: post_process_fractions on a state whose phase fractions lie in     *)
(* [0,1] and sum to 1 and whose extended fractions lie in [0,1] and sum to *)
(* 1 in every phase leaves every phase fraction and extended fraction      *)
(* unchanged and sets each normalized fraction to the extended one; the    *)
(* state it leaves is again such a state, so a second call does the same.  *)
C13_PostProcessIdempotent ==
    [][(PostProcessed(last'.op, last'.result) /\ NormalizedInBounds(iterate)) =>
          /\ \A e \in Range(phases) :
                /\ iterate'[<<"y", e>>] = iterate[<<"y", e>>]
                /\ \A c \in Range(present[e]) :
                      /\ iterate'[<<"xi", c, e>>] = iterate[<<"xi", c, e>>]
                      /\ iterate'[<<"chi", c, e>>] =
                            FromUnits(iterate[<<"xi", c, e>>])
          /\ NormalizedInBounds(iterate')]_vars

\* two calls on a normalized state with both phases and both components present
C13_Witness ==
    /\ PostProcessed(last.op, last.result)
    /\ numCalls = 2
    /\ NormalizedInBounds(state)
    /\ \A v \in MolarFractionNames(phases, components) :
          state[v] = iterate[v] /\ iterate[v] = One \div 2
    /\ \A e \in Range(phases), c \in Range(components) :
          iterate[<<"chi", c, e>>] = <<1, 2>>

(* C14: after post_process_fractions, whatever the fractions were before   *)
(* (negative, above 1, or extended fractions of a phase that sum to zero), *)
(* every phase fraction, extended fraction and normalized fraction is a    *)
(* value in [0,1], and the feed fractions are unchanged.                   *)
C14_FractionsInUnitInterval ==
    [][PostProcessed(last'.op, last'.result) =>
          /\ \A e \in Range(phases) :
                /\ InUnitInterval(iterate'[<<"y", e>>])
                /\ \A c \in Range(present[e]) :
                      /\ InUnitInterval(iterate'[<<"xi", c, e>>])
                      /\ RInUnitInterval(iterate'[<<"chi", c, e>>])
          /\ \A c \in Range(components) :
                /\ iterate'[<<"z", c>>] = iterate[<<"z", c>>]
                /\ state'[<<"z", c>>] = state[<<"z", c>>]]_vars

\* evaluate_saturations has just returned on a composition of n phases
SaturationsEvaluated(op, n) == op = "evaluate_saturations" /\ Len(phases) = n

\* the closed form 1 / (1 + (y_j / (1 - y_j)) (rho_i / rho_j)) as one quotient,
\* y_j in units of 1/One
ClosedForm(y_j, rho_i, rho_j) ==
    Rat((One - y_j) * rho_j, (One - y_j) * rho_j + y_j * rho_i)

(* C15: for two phases, evaluate_saturations sets s_i = 1 and s_j = 0      *)
(* where y_i = 1, for i either phase, without dividing by zero, and sets   *)
(* s_i = 1/(1 + (y_j/(1-y_j)) (rho_i/rho_j)) where neither fraction is 1;  *)
(* y1 = y2 = 0.5 with equal densities gives s1 = s2 = 0.5.                 *)
C15_TwoPhaseSaturations ==
    [][SaturationsEvaluated(last'.op, 2) =>
          \A i \in 1..2 :
              LET j == 3 - i
                  y_i == iterate[<<"y", phases[i]>>]
                  y_j == iterate[<<"y", phases[j]>>]
                  s_i == iterate'[<<"s", phases[i]>>]
                  s_j == iterate'[<<"s", phases[j]>>]
              IN /\ (y_i = One /\ y_j # One) =>
                        s_i = ROne /\ s_j = RZero /\ last'.result = "ok"
                 /\ (y_i # One /\ y_j # One) =>
                        s_i = ClosedForm(y_j, last'.rho[i], last'.rho[j])
                 /\ (y_i = One \div 2 /\ y_j = One \div 2
                        /\ last'.rho[i] = last'.rho[j]) => s_i = <<1, 2>>]_vars

\* a cell saturated by the first phase has been evaluated
C15_Witness ==
    /\ SaturationsEvaluated(last.op, 2)
    /\ iterate[<<"y", "L">>] = One /\ iterate[<<"y", "G">>] = 0
    /\ iterate[<<"s", "L">>] = ROne /\ iterate[<<"s", "G">>] = RZero
    /\ last.result = "ok"

(* C16: for three or more phases, evaluate_saturations sets the saturation *)
(* of a phase with molar fraction y = 1 to 1 and that of every other phase *)
(* to 0, and where no phase has y = 1 the saturations are the solution of  *)
(* the linear system built from the molar phase fractions y.               *)
C16_MultiPhaseSaturations ==
    [][SaturationsEvaluated(last'.op, 3) =>
          LET y == [i \in 1..3 |-> FromUnits(iterate[<<"y", phases[i]>>])]
              s == [i \in 1..3 |-> iterate'[<<"s", phases[i]>>]]
          IN /\ \A i \in 1..3 :
                   (y[i] = ROne /\ \A j \in 1..3 \ {i} : y[j] # ROne) =>
                       s[i] = ROne /\ \A j \in 1..3 \ {i} : s[j] = RZero
             /\ (\A i \in 1..3 : y[i] # ROne) =>
                   s = multi_phase_saturations(y, last'.rho)]_vars

(* C17: in _Z, for every discriminant delta, every reduced coefficient r   *)
(* and every eps >= 0, exactly one of the four region flags one-root,      *)
(* triple-root, double-root and three-root is true, and neither of the two *)
(* region assertions fails.                                                *)
C17_RegionPartition ==
    last.op \in {"classify_regions", "_Z"} =>
        /\ trues_per_row(last.flags) = 1
        /\ last.result = "ok"

\* r on the closed end of the triple-root interval, delta on the closed end
\* of the degenerate interval
C17_Witness ==
    /\ last.op = "classify_regions"
    /\ eos.eps > 0
    /\ last.delta = eos.eps
    /\ last.r = -eos.eps
    /\ last.flags = <<FALSE, TRUE, FALSE, FALSE>>
    /\ last.result = "ok"

(* C18: in every root region, the first root _Z returns for a gas-like     *)
(* equation of state is greater than or equal to the first root it returns *)
(* for a liquid-like one on the same (A, B), the one-root region with its  *)
(* extension included: Z_G >= Z_L.                                         *)
C18_GasRootNotBelowLiquidRoot ==
    (last.op = "_Z" /\ last.result = "ok" /\ eos.gaslike) =>
        ZLeq(Z_roots(last.A, last.B, FALSE, eos.eps).roots[1], last.roots[1])

(* C19: both roots returned by _Z are strictly greater than B: a root at   *)
(* or below B, liquid-like or gas-like, is replaced by B + eps.            *)
C19_RootsAboveCovolume ==
    (last.op = "_Z" /\ last.result = "ok") =>
        /\ ZLess(<<ZUnits(last.B), 0>>, last.roots[1])
        /\ ZLess(<<ZUnits(last.B), 0>>, last.roots[2])

(* C20: after the components setter of PengRobinsonEoS, for every pair of  *)
(* components i < j: the callable component i supplies for j is the one    *)
(* used, also when j supplies one for i, and then a conflict is logged;    *)
(* otherwise the callable j supplies for i is used; otherwise the value of *)
(* the static table, zero where the table has none; and the setter         *)
(* completes without error in each of these cases.                         *)
C20_BipResolution ==
    last.op = "components" =>
        /\ last.result = "ok"
        /\ \A i, j \in 1..Len(last.components) :
              i < j =>
                LET comp_i == last.components[i]
                    comp_j == last.components[j]
                    used == compute_bips(eos)[<<i, j>>]
                IN IF supplies_bip(comp_i, comp_j)
                   THEN /\ used.custom
                        /\ used.callable =
                               <<comp_i.CASr_number, comp_j.CASr_number>>
                        /\ supplies_bip(comp_j, comp_i) =>
                               <<i, j>> \in last.warnings
                   ELSE IF supplies_bip(comp_j, comp_i)
                        THEN /\ used.custom
                             /\ used.callable =
                                    <<comp_j.CASr_number, comp_i.CASr_number>>
                        ELSE /\ ~used.custom
                             /\ used.value = load_bip(comp_i.CASr_number,
                                                      comp_j.CASr_number)

(* C21: compute fails with a ValueError whenever the number of passed      *)
(* fractions differs from the number of components, and the failed call    *)
(* leaves the is_extended, is_supercritical and is_sub_pseudo_critical     *)
(* flags of the object as they were: the check comes before the roots.     *)
C21_FractionCountChecked ==
    [][(last'.op = "compute" /\ last'.X # Len(eos.components)) =>
          /\ last'.result = "ValueError"
          /\ eos'.is_extended = eos.is_extended
          /\ eos'.is_supercritical = eos.is_supercritical
          /\ eos'.is_sub_pseudo_critical = eos.is_sub_pseudo_critical]_vars

\* a failed call after a call that has set the flags
C21_Witness ==
    /\ last.op = "compute"
    /\ last.result = "ValueError"
    /\ last.X > Len(eos.components)
    /\ Len(eos.components) = 2
    /\ eos.is_extended = <<TRUE>>

\* the polynomial has a zero in the cell of the root grid that starts at Z:
\* _Z_polynom(Z, A, B) is zero up to the width of the grid
PolynomialVanishes(Z, A, B) ==
    \/ Z_polynom(Z, A, B) <= 0 /\ Z_polynom(Z + 1, A, B) > 0
    \/ Z_polynom(Z, A, B) >= 0 /\ Z_polynom(Z + 1, A, B) < 0

\* the selected root is a value that stands in for a root
SelectedIsSubstitute ==
    last.is_extended \/ (~eos.gaslike /\ last.correction)

FractionVars(c, e) == {<<"xi", c, e>>, <<"chi", c, e>>}

(* C23: Phase.add_component registers a component exactly once: a          *)
(* component that was not present is appended once and its extended and    *)
(* normalized fractions are zero in ITERATE and STATE; a component that    *)
(* was present leaves the list and the stored fractions as they were.      *)
C23_PhaseRegistersOnce ==
    [][(last'.op = "Phase.add_component" /\ last'.result = "ok") =>
        LET e == last'.phase IN
        /\ Range(last'.list) \subseteq Range(present[e]) =>
              present'[e] = present[e]
        /\ \A c \in Range(last'.list) :
              /\ Count(present'[e], c) = 1
              /\ c \in Range(present[e]) =>
                    \A v \in FractionVars(c, e) :
                        iterate'[v] = iterate[v] /\ state'[v] = state[v]
              /\ c \notin Range(present[e]) =>
                    /\ iterate'[<<"xi", c, e>>] = 0
                    /\ state'[<<"xi", c, e>>] = 0
                    /\ iterate'[<<"chi", c, e>>] = RZero
                    /\ state'[<<"chi", c, e>>] = RZero]_vars

(* C24: after any sequence of Composition.add_component calls every phase  *)
(* holds exactly the components of the composition, in the order of the    *)
(* composition's component list.                                           *)
C24_PhasesHoldCompositionComponents ==
    \A e \in Range(phases) : present[e] = components

\* a flash call takes its initial-guess step
GuessStep == pc = "idle" /\ pc' # "idle"

(* C25: the initial-guess step of a flash changes no value with 'iterate'; *)
(* with 'uniform' every phase fraction is 1/num_phases and, in every       *)
(* phase, the fraction of each component is 1/(number of components of     *)
(* the phase), so the phase fractions and each phase's composition sum to  *)
(* one.                                                                    *)
C25_InitialGuess ==
    [][GuessStep =>
        /\ fl'.initial_guess = "iterate" => iterate' = iterate
        /\ fl'.initial_guess = "uniform" =>
            /\ \A e \in Range(phases) :
                  /\ iterate'[<<"y", e>>] * Len(phases) = One
                  /\ \A c \in Range(present[e]) :
                        iterate'[<<"xi", c, e>>] * Len(present[e]) = One
                  /\ SumOver(iterate', {<<"xi", c, e>> :
                                           c \in Range(present[e])}) = One
            /\ SumOver(iterate', {<<"y", e>> : e \in Range(phases)}) = One
      ]_vars

\* a uniform guess has replaced other values in a two-phase composition
C25_Witness ==
    /\ pc # "idle"
    /\ fl.initial_guess = "uniform"
    /\ fl.solves = 0
    /\ Len(phases) = 2
    /\ Len(components) = 2
    /\ \A e \in Range(phases) : iterate[<<"y", e>>] = One \div 2
    /\ \E e \in Range(phases) : state[<<"y", e>>] # One \div 2

\* a step of a flash call: its start, a Newton iteration or its end
FlashStep == pc # "idle" \/ pc' # "idle" \/ last'.op \in FlashKinds

\* the kind of the call the step belongs to
StepKind ==
    IF pc # "idle" THEN fl.flash
    ELSE IF pc' # "idle" THEN fl'.flash ELSE last'.op

\* the variables held fixed by a flash apart from the reference phase fraction
FixedVars(kind) ==
    {<<"p">>, <<"h">>}
    \cup (IF kind = "isothermal" THEN {<<"T">>} ELSE {})
    \cup {FeedName(c) : c \in Range(components)}
    \cup {SaturationName(e) : e \in Range(phases)}

Kept(f, g, S) == \A v \in S \cap DOMAIN f : v \in DOMAIN g /\ g[v] = f[v]

ReferenceFraction ==
    IF phases = << >> THEN {} ELSE {FractionName(reference_phase)}

(* C26: a flash call of either kind, with any initial guess, changes only  *)
(* primary variables: pressure, enthalpy, feed fractions, saturations,     *)
(* the reference phase fraction and (isothermal) temperature keep their    *)
(* ITERATE and STATE values through every step of the call.                *)
C26_FlashKeepsSecondaryVariables ==
    [][FlashStep =>
        /\ Kept(iterate, iterate', FixedVars(StepKind) \cup ReferenceFraction)
        /\ Kept(state, state', FixedVars(StepKind) \cup ReferenceFraction)
      ]_vars

(* C26 as the code has it: the same, except that the initial-guess step    *)
(* with 'uniform' writes 1/num_phases to the ITERATE value of the          *)
(* reference phase fraction; its STATE value is kept.                      *)
C26_FlashKeepsSecondaryVariablesButUniformGuess ==
    [][FlashStep =>
        /\ Kept(iterate, iterate', FixedVars(StepKind))
        /\ Kept(state, state', FixedVars(StepKind) \cup ReferenceFraction)
        /\ IF GuessStep /\ fl'.initial_guess = "uniform"
           THEN \A v \in ReferenceFraction :
                    iterate'[v] * Len(phases) = One
           ELSE Kept(iterate, iterate', ReferenceFraction)
      ]_vars

\* a flash with a uniform guess has converged and copied its result to STATE
C26_Witness ==
    /\ pc = "idle"
    /\ last.op \in FlashKinds
    /\ last.result = "True"
    /\ fl.initial_guess = "uniform"
    /\ fl.copy_to_state
    /\ fl.solves > 0
    /\ Len(phases) = 2
    /\ iterate[FractionName(reference_phase)] = One \div 2
    /\ state[FractionName(reference_phase)] = 0

(* C27: the roots of a cell depend on the A and B of that cell only: _Z   *)
(* on arrays whose cells lie in different root regions raises no error     *)
(* and returns for every cell the pair it returns for the cell alone.      *)
C27_CellsIndependent ==
    [][last'.op = "_Z cells" =>
        /\ last'.result = "ok"
        /\ \A i \in 1..Len(last'.cells) :
              last'.roots[i] = Z_roots(last'.cells[i][1], last'.cells[i][2],
                                       eos.gaslike, eos.eps).roots
      ]_vars

(* C28: after the components setter has completed, the stored interaction *)
(* parameters are strictly upper triangular: for i >= j the entry [i][j]   *)
(* of _bip_vals is zero and _custom_bips has no key (i, j), so that        *)
(* _compute_bips returns zero on the diagonal and the lower triangle.      *)
C28_BipsStrictlyUpperTriangular ==
    (last.op = "components" /\ last.result = "ok") =>
        \A i, j \in 1..Len(eos.components) :
            i >= j =>
                /\ eos.bip_vals[<<i, j>>] = 0
                /\ <<i, j>> \notin DOMAIN eos.custom_bips
                /\ ~compute_bips(eos)[<<i, j>>].custom
                /\ compute_bips(eos)[<<i, j>>].value = 0

\* num_equilibrium_equations
num_equilibrium_equations == Len(components) * (Len(phases) - 1)

(* C29: for N >= 1 components and M >= 2 phases the system is square after *)
(* initialize once the N * (M - 1) equilibrium equations are added: the    *)
(* equations of the p-T subsystem plus N * (M - 1) are as many as its      *)
(* primary variables, and the p-h subsystem has one more equation and one  *)
(* more primary variable.                                                  *)
C29_SquareSystem ==
    (JustInitialized /\ Len(components) >= 1 /\ Len(phases) >= 2) =>
        /\ Len(pT_subsystem.equations) + num_equilibrium_equations
               = Len(pT_subsystem.primary_vars)
        /\ Len(ph_subsystem.equations) = Len(pT_subsystem.equations) + 1
        /\ Len(ph_subsystem.primary_vars)
               = Len(pT_subsystem.primary_vars) + 1

(* C30: in a two-phase composition whose phase fractions satisfy           *)
(* y1 + y2 = 1 with both in [0, 1], and with positive densities, the       *)
(* saturations written by evaluate_saturations satisfy s1 + s2 = 1 and     *)
(* both lie in [0, 1].                                                     *)
C30_TwoPhaseSaturationsUnity ==
    [][(SaturationsEvaluated(last'.op, 2)
            /\ iterate[<<"y", phases[1]>>] \in 0..One
            /\ iterate[<<"y", phases[1]>>] + iterate[<<"y", phases[2]>>] = One
            /\ \A i \in 1..2 : last'.rho[i] > 0) =>
          LET s1 == iterate'[<<"s", phases[1]>>]
              s2 == iterate'[<<"s", phases[2]>>]
          IN /\ RAdd(s1, s2) = ROne
             /\ RInUnitInterval(s1)
             /\ RInUnitInterval(s2)
             /\ fl'.copy_to_state =>
                   /\ state'[<<"s", phases[1]>>] = s1
                   /\ state'[<<"s", phases[2]>>] = s2]_vars

\* both phases present with different densities: s_L = 4/5 and s_G = 1/5
C30_Witness ==
    /\ SaturationsEvaluated(last.op, 2)
    /\ iterate[<<"y", "L">>] = 2 * (One \div 3)
    /\ iterate[<<"y", "G">>] = One \div 3
    /\ last.rho = <<1, 2>>
    /\ iterate[<<"s", "L">>] = <<4, 5>>
    /\ iterate[<<"s", "G">>] = <<1, 5>>

============================================================================
